---- MODULE Spec2Model ----
(***************************************************************************)
(* The relational path of the user-list timeline endpoint                  *)
(* (notes/user-list-timeline.ts): getFromDb, getOptimizedTimeline with its *)
(* relation lookups and batched note queries, and getFallbackTimeline.     *)
(*                                                                         *)
(* Every action is the continuation of one await: a query settles, found   *)
(* or failed, and the code runs up to its next await.  A client pages      *)
(* through the timeline with successive calls.                             *)
(*                                                                         *)
(* Ids (users, notes) are positive integers ordered like the id strings;   *)
(* 0 stands for null / undefined / the empty array '{}'.                   *)
(*                                                                         *)
(* Spec starts from lists of up to MaxMembers members (three batches) with *)
(* plain notes; SpecFilter from a list of two members with notes of every  *)
(* shape the filters of the queries tell apart.                            *)
(***************************************************************************)
EXTENDS Integers, Sequences, FiniteSets, TLC

\* ---------------------------------------------------------------- constants
batchSize == 15
BatchRowLimit == 50
EarlyFactor == 3
DefaultLimit == 10

\* ------------------------------------------------------------------- bounds
MaxMembers == 31
MaxNotes == 4
MaxLimit == 2

VARIABLES
    \* the stores, read-only for this endpoint
    me,            \* id of the caller (me.id)
    listMembers,   \* user_list_membership rows of the list: <<[userId, withReplies]>>
    notes,         \* the note table: a set of note rows
    suspended,     \* users with isSuspended = true
    following,     \* users the caller follows
    mutings,       \* muteeIds of the caller's mutings
    blockings,     \* blockeeIds of the caller's blockings
    renoteMutings, \* muteeIds of the caller's renote mutings
    userLists,     \* the user_list table: a set of rows [id, userId]
    enableFanoutTimeline,  \* serverSettings.enableFanoutTimeline
    \* one call of getFromDb
    ps,            \* the parameters of the call
    pc,            \* the await the call is at: "members" | "relations" | "batch" |
                   \* "fallback", or "done"
    rel,           \* state of the three relation lookups of Promise.all
    renoteMutedUserIds,
    validMembers,
    i,             \* loop index of the batch loop
    allNotes,      \* the accumulator
    batches,       \* one record per batch query issued, in order
    optCalls,      \* calls of getOptimizedTimeline in this call of getFromDb
    fbCalls,       \* calls of getFallbackTimeline in this call of getFromDb
    cause,         \* what made the optimized path raise ("" if it did not)
    outcome,       \* "" | "returned" | "raised"
    timeline,      \* the value getFromDb resolved with
    \* the client paging through the timeline
    phase,         \* "first" | "next" | "single"
    ps0,           \* parameters of the first request
    pages,         \* the timelines of the completed requests, in order
    clean,         \* no query of any request so far has failed
    \* one run of the endpoint handler
    listId,        \* ps.listId
    hpc,           \* the await the handler is at: "list" | "db" | "pack" | "fanout" |
                   \* "fanoutDb", or "done"
    list,          \* the row the list lookup resolved with, 0 for null
    reads,         \* calls of activeUsersChart.read(me)
    fanoutCalls,   \* calls of fanoutTimelineEndpointService.timeline
    error          \* what the handler threw ("" if nothing): "NoSuchList" | "raised"

world == <<me, listMembers, notes, suspended, following, mutings, blockings, renoteMutings,
           userLists, enableFanoutTimeline>>
call == <<ps, pc, rel, renoteMutedUserIds, validMembers, i, allNotes, batches,
          optCalls, fbCalls, cause, outcome, timeline>>
client == <<phase, ps0, pages, clean>>
handler == <<listId, hpc, list, reads, fanoutCalls, error>>
vars == <<world, call, client, handler>>

\* ------------------------------------------------------------------ helpers
IsNull(x) == x = 0

Min(a, b) == IF a < b THEN a ELSE b

Range(s) == {s[k] : k \in DOMAIN s}

\* Array.prototype.slice(from, to) on a sequence, 0-based, end exclusive
slice(s, from, to) == SubSeq(s, Min(from, Len(s)) + 1, Min(to, Len(s)))

\* ORDER BY note.id DESC of a set of rows (note.id is the primary key)
RECURSIVE orderByIdDesc(_)
orderByIdDesc(S) ==
    IF S = {} THEN << >>
    ELSE LET top == CHOOSE n \in S : \A m \in S : m.id <= n.id
         IN  <<top>> \o orderByIdDesc(S \ {top})

\* Array.prototype.sort((a, b) => b.id.localeCompare(a.id)): stable, descending
RECURSIVE insertDesc(_, _)
insertDesc(sorted, n) ==
    IF sorted = << >> THEN <<n>>
    ELSE IF Head(sorted).id >= n.id THEN <<Head(sorted)>> \o insertDesc(Tail(sorted), n)
    ELSE <<n>> \o sorted

RECURSIVE sortByIdDesc(_)
sortByIdDesc(s) ==
    IF s = << >> THEN << >>
    ELSE insertDesc(sortByIdDesc(SubSeq(s, 1, Len(s) - 1)), s[Len(s)])

Limit(p) == IF IsNull(p.limit) THEN DefaultLimit ELSE p.limit

\* --------------------------------------------------------- the note queries
\* QueryService.generateVisibilityQuery(query, me): the notes the caller may see
generateVisibilityQuery(n, meId) ==
    \/ n.visibility \in {"public", "home"}
    \/ n.userId = meId
    \/ n.visibility = "followers" /\ n.userId \in following

\* mutant of replyFilter: the withReplies flag of the members is not read
replyFilterNoMembers(n, members, meId) ==
    \/ IsNull(n.replyId)
    \/ (~IsNull(n.replyUserId) /\ n.replyUserId = n.userId)
    \/ n.replyUserId = meId

\* the reply bracket of getNotesForUsers
replyFilter(n, members, meId) ==
    LET membersWithReplies == {m.userId : m \in {x \in Range(members) : x.withReplies}}
    IN  IF membersWithReplies # {}
        THEN \/ IsNull(n.replyId)
             \/ (~IsNull(n.replyUserId) /\ n.replyUserId = n.userId)
             \/ n.replyUserId = meId
             \/ n.userId \in membersWithReplies
        ELSE \/ IsNull(n.replyId)
             \/ (~IsNull(n.replyUserId) /\ n.replyUserId = n.userId)
             \/ n.replyUserId = meId

\* mutant of renoteMuteFilter: the bracket is never added to the query
renoteMuteFilterOff(n, renoteMutedIds) == TRUE

\* the renote-mute bracket of getNotesForUsers
renoteMuteFilter(n, renoteMutedIds) ==
    renoteMutedIds # {} =>
        \/ IsNull(n.renoteId)
        \/ ~IsNull(n.text)
        \/ n.userId \notin renoteMutedIds

includeMyRenotesFilter(n, p, meId) ==
    p.includeMyRenotes = FALSE =>
        \/ n.userId # meId
        \/ IsNull(n.renoteId)
        \/ ~IsNull(n.text)
        \/ ~IsNull(n.fileIds)

withRenotesFilter(n, p) ==
    p.withRenotes = FALSE =>
        \/ IsNull(n.renoteId)
        \/ ~IsNull(n.text)
        \/ ~IsNull(n.fileIds)

withFilesFilter(n, p) == p.withFiles => ~IsNull(n.fileIds)

\* mutant of paging: the cursor bounds are inclusive
pagingInclusive(n, p) ==
    /\ ~IsNull(p.untilId) => n.id <= p.untilId
    /\ ~IsNull(p.sinceId) => n.id >= p.sinceId

\* the paging conditions, the same in both queries
paging(n, p) ==
    /\ ~IsNull(p.untilId) => n.id < p.untilId
    /\ ~IsNull(p.sinceId) => n.id > p.sinceId

\* mutant of getNotesForUsers: the query orders by note.id ASC
getNotesForUsersAsc(userIds, members, p, meId, renoteMutedIds) ==
    LET rows == {n \in notes :
                    /\ n.userId \in userIds
                    /\ IsNull(n.channelId)
                    /\ n.userId \notin suspended
                    /\ replyFilter(n, members, meId)
                    /\ generateVisibilityQuery(n, meId)
                    /\ renoteMuteFilter(n, renoteMutedIds)
                    /\ includeMyRenotesFilter(n, p, meId)
                    /\ withRenotesFilter(n, p)
                    /\ withFilesFilter(n, p)
                    /\ paging(n, p)}
        desc == orderByIdDesc(rows)
        asc  == [k \in 1..Len(desc) |-> desc[Len(desc) + 1 - k]]
    IN  slice(asc, 0, BatchRowLimit)

\* mutant of getNotesForUsers: the base where clause has only the userId condition
getNotesForUsersAnyChannel(userIds, members, p, meId, renoteMutedIds) ==
    LET rows == {n \in notes :
                    /\ n.userId \in userIds
                    /\ replyFilter(n, members, meId)
                    /\ generateVisibilityQuery(n, meId)
                    /\ renoteMuteFilter(n, renoteMutedIds)
                    /\ includeMyRenotesFilter(n, p, meId)
                    /\ withRenotesFilter(n, p)
                    /\ withFilesFilter(n, p)
                    /\ paging(n, p)}
    IN  slice(orderByIdDesc(rows), 0, BatchRowLimit)

\* the rows getNotesForUsers resolves with when its query succeeds
getNotesForUsers(userIds, members, p, meId, renoteMutedIds) ==
    LET rows == {n \in notes :
                    /\ n.userId \in userIds
                    /\ IsNull(n.channelId)
                    /\ n.userId \notin suspended
                    /\ replyFilter(n, members, meId)
                    /\ generateVisibilityQuery(n, meId)
                    /\ renoteMuteFilter(n, renoteMutedIds)
                    /\ includeMyRenotesFilter(n, p, meId)
                    /\ withRenotesFilter(n, p)
                    /\ withFilesFilter(n, p)
                    /\ paging(n, p)}
    IN  slice(orderByIdDesc(rows), 0, BatchRowLimit)

\* mutant of getFallbackTimeline: the query has no visibility condition
getFallbackTimelineAnyVisibility(p) ==
    LET rows == {n \in notes :
                    /\ \E k \in DOMAIN listMembers : listMembers[k].userId = n.userId
                    /\ IsNull(n.channelId)
                    /\ n.userId \notin suspended
                    /\ paging(n, p)}
    IN  slice(orderByIdDesc(rows), 0, Limit(p))

\* the rows getFallbackTimeline resolves with when its query succeeds
getFallbackTimeline(p) ==
    LET rows == {n \in notes :
                    /\ \E k \in DOMAIN listMembers : listMembers[k].userId = n.userId
                    /\ IsNull(n.channelId)
                    /\ n.userId \notin suspended
                    /\ n.visibility \in {"public", "home"}
                    /\ paging(n, p)}
    IN  slice(orderByIdDesc(rows), 0, Limit(p))

\* mutant of filterMembers: only the muted members are removed
filterMembersMutedOnly(members, mutedUserIds, blockedUserIds) ==
    SelectSeq(members, LAMBDA m : m.userId \notin mutedUserIds)

\* step 3 of getOptimizedTimeline: the members neither muted nor blocked
filterMembers(members, mutedUserIds, blockedUserIds) ==
    LET blockedSet == mutedUserIds \cup blockedUserIds
    IN  SelectSeq(members, LAMBDA m : m.userId \notin blockedSet)

\* mutant of batchAt: the slice ends one member late
batchAtOverlap(valid, k) == slice(valid, k, k + batchSize + 1)

\* the batch of the loop iteration at index k
batchAt(valid, k) == slice(valid, k, k + batchSize)

batchUserIds(batch) == {m.userId : m \in Range(batch)}

\* mutant of sortedNotes: the accumulator is cut without being sorted
sortedNotesUnsorted(acc, p) == slice(acc, 0, Limit(p))

\* step 5 of getOptimizedTimeline: sort and limit
sortedNotes(acc, p) == slice(sortByIdDesc(acc), 0, Limit(p))

\* mutant of enough: the loop stops only above 3 x limit
enoughStrict(acc, p) == Len(acc) > Limit(p) * EarlyFactor

\* the early-termination test of the loop
enough(acc, p) == Len(acc) >= Limit(p) * EarlyFactor

\* ------------------------------------------------------------ initial state
Lookups == {"mute", "block", "renoteMute"}

NoLookups == [l \in Lookups |-> "idle"]

Note(id, userId) ==
    [id |-> id, userId |-> userId, channelId |-> 0, replyId |-> 0, replyUserId |-> 0,
     renoteId |-> 0, text |-> 1, fileIds |-> 0, visibility |-> "public"]

Params(untilId, sinceId, limit, withFiles, withRenotes, includeMyRenotes) ==
    [untilId |-> untilId, sinceId |-> sinceId, limit |-> limit,
     includeMyRenotes |-> includeMyRenotes, includeRenotedMyNotes |-> TRUE,
     includeLocalRenotes |-> TRUE, withFiles |-> withFiles, withRenotes |-> withRenotes]

\* getFromDb is called with p: getOptimizedTimeline runs up to its first await,
\* the membership lookup
CallGetFromDb(p) ==
    /\ ps' = p
    /\ pc' = "members"
    /\ rel' = NoLookups
    /\ renoteMutedUserIds' = {}
    /\ validMembers' = << >>
    /\ i' = 0
    /\ allNotes' = << >>
    /\ batches' = << >>
    /\ optCalls' = 1
    /\ fbCalls' = 0
    /\ cause' = ""
    /\ outcome' = ""
    /\ timeline' = << >>

\* the handler has found the caller's list and awaits getFromDb, with the fanout
\* timeline disabled
AwaitingGetFromDb ==
    /\ userLists = {[id |-> 1, userId |-> me]}
    /\ enableFanoutTimeline = FALSE
    /\ listId = 1
    /\ hpc = "db"
    /\ list = 1
    /\ reads = 0
    /\ fanoutCalls = 0
    /\ error = ""

\* the authors of the notes: one member of each of the first three batches
Authors == {1, batchSize + 1, 2 * batchSize + 1}

MemberCounts == {0, 1, batchSize + 1, MaxMembers}

Init ==
    /\ me = MaxMembers + 1
    /\ AwaitingGetFromDb
    /\ \E n \in MemberCounts :
          listMembers = [k \in 1..n |-> [userId |-> k, withReplies |-> FALSE]]
    /\ \E author \in [1..MaxNotes -> Authors] :
          /\ \A id \in 1..(MaxNotes - 1) : author[id] <= batchSize + 1
          /\ notes = {Note(id, author[id]) : id \in 1..MaxNotes}
    /\ suspended = {}
    /\ following = {}
    /\ mutings \in {{}, {batchSize + 1}}
    /\ blockings \in {{}, {1}}
    /\ renoteMutings = {}
    /\ \E limit \in 1..MaxLimit, sinceId \in {0, 1} :
          ps0 = Params(0, sinceId, limit, FALSE, TRUE, TRUE)
    /\ ps = ps0
    /\ pc = "members"
    /\ rel = NoLookups
    /\ renoteMutedUserIds = {}
    /\ validMembers = << >>
    /\ i = 0
    /\ allNotes = << >>
    /\ batches = << >>
    /\ optCalls = 1
    /\ fbCalls = 0
    /\ cause = ""
    /\ outcome = ""
    /\ timeline = << >>
    /\ phase = "first"
    /\ pages = << >>
    /\ clean = TRUE

\* A second set of initial states, for the filters of the queries: a list of two
\* members, note 1 of any shape by either member and the plain note 2 by member
\* 1.  User 3 is no member, user 4 a third party, note 9 a note of user 4.
Shapes(id, userId, meId) ==
    LET plain == Note(id, userId)
    IN  { plain,
          [plain EXCEPT !.fileIds = 1],
          [plain EXCEPT !.text = 0, !.fileIds = 1],
          [plain EXCEPT !.renoteId = 9, !.text = 0],
          [plain EXCEPT !.renoteId = 9, !.text = 0, !.fileIds = 1],
          [plain EXCEPT !.renoteId = 9],
          [plain EXCEPT !.replyId = 9, !.replyUserId = 4],
          [plain EXCEPT !.replyId = 9, !.replyUserId = userId],
          [plain EXCEPT !.replyId = 9, !.replyUserId = meId],
          [plain EXCEPT !.channelId = 1],
          [plain EXCEPT !.visibility = "followers"],
          [plain EXCEPT !.visibility = "direct"] }

\* Member 1 has five posts, one of them a reply to the third party; member 2 has
\* three posts, one of them a reply to member 1.
ReplyScenario ==
    { Note(1, 1), Note(3, 1), Note(5, 1), Note(7, 1),
      [Note(4, 1) EXCEPT !.replyId = 9, !.replyUserId = 4],
      Note(2, 2), Note(8, 2),
      [Note(6, 2) EXCEPT !.replyId = 5, !.replyUserId = 1] }

\* who the caller is and what the relation stores hold
Scene(meId, withReplies, susp, follow, mute, block, renoteMute) ==
    [me |-> meId, withReplies |-> withReplies, suspended |-> susp, following |-> follow,
     mutings |-> mute, blockings |-> block, renoteMutings |-> renoteMute]

Scenes ==
    { Scene(3, {}, {}, {}, {}, {}, {}),
      Scene(2, {}, {}, {}, {}, {}, {}),
      Scene(3, {1}, {}, {}, {}, {}, {}),
      Scene(3, {2}, {}, {}, {}, {}, {}),
      Scene(3, {}, {2}, {}, {}, {}, {}),
      Scene(3, {}, {}, {2}, {}, {}, {}),
      Scene(3, {}, {}, {}, {2}, {}, {}),
      Scene(3, {}, {}, {}, {}, {2}, {}),
      Scene(3, {}, {}, {}, {}, {}, {2}),
      Scene(3, {}, {}, {}, {}, {}, {1}) }

Flags ==
    { Params(0, 0, 1, FALSE, TRUE, TRUE),
      Params(0, 0, 1, TRUE, TRUE, TRUE),
      Params(0, 0, 1, FALSE, FALSE, TRUE),
      Params(0, 0, 1, FALSE, TRUE, FALSE) }

InitFilter ==
    /\ \E scene \in Scenes :
          /\ me = scene.me
          /\ listMembers = [k \in 1..2 |-> [userId |-> k, withReplies |-> k \in scene.withReplies]]
          /\ suspended = scene.suspended
          /\ following = scene.following
          /\ mutings = scene.mutings
          /\ blockings = scene.blockings
          /\ renoteMutings = scene.renoteMutings
          /\ \E flags \in Flags :
                \/ /\ \E author \in {1, 2} :
                         \E shaped \in Shapes(1, author, scene.me) :
                            notes = {shaped, Note(2, 1)}
                   /\ \E limit \in 1..MaxLimit : ps0 = [flags EXCEPT !.limit = limit]
                \/ /\ notes = ReplyScenario
                   /\ ps0 = [flags EXCEPT !.limit = DefaultLimit]
    /\ AwaitingGetFromDb
    /\ ps = ps0
    /\ pc = "members"
    /\ rel = NoLookups
    /\ renoteMutedUserIds = {}
    /\ validMembers = << >>
    /\ i = 0
    /\ allNotes = << >>
    /\ batches = << >>
    /\ optCalls = 1
    /\ fbCalls = 0
    /\ cause = ""
    /\ outcome = ""
    /\ timeline = << >>
    /\ phase = "first"
    /\ pages = << >>
    /\ clean = TRUE

\* A list of two batches whose first member has written more posts than one
\* batch query returns; the newest post is by the first or by the last member.
InitCap ==
    /\ me = MaxMembers + 1
    /\ AwaitingGetFromDb
    /\ listMembers = [k \in 1..(batchSize + 1) |-> [userId |-> k, withReplies |-> FALSE]]
    /\ \E last \in {1, batchSize + 1} :
          notes = {Note(id, 1) : id \in 1..(BatchRowLimit + 1)}
                     \cup {Note(BatchRowLimit + 2, last)}
    /\ suspended = {}
    /\ following = {}
    /\ mutings = {}
    /\ blockings \in {{}, {2}}
    /\ renoteMutings = {}
    /\ \E limit \in {batchSize + 1, batchSize + 2, BatchRowLimit} :
          ps0 = Params(0, 0, limit, FALSE, TRUE, TRUE)
    /\ ps = ps0
    /\ pc = "members"
    /\ rel = NoLookups
    /\ renoteMutedUserIds = {}
    /\ validMembers = << >>
    /\ i = 0
    /\ allNotes = << >>
    /\ batches = << >>
    /\ optCalls = 1
    /\ fbCalls = 0
    /\ cause = ""
    /\ outcome = ""
    /\ timeline = << >>
    /\ phase = "first"
    /\ pages = << >>
    /\ clean = TRUE

\* ------------------------------------------------------------------ actions
\* getOptimizedTimeline returns v; getFromDb returns it
Return(v) ==
    /\ pc' = "done"
    /\ outcome' = "returned"
    /\ timeline' = v

\* mutant of Escalate: getFromDb has no catch, the fallback is never called
EscalateRethrow(why) ==
    /\ pc' = "done"
    /\ fbCalls' = fbCalls
    /\ cause' = why

\* getOptimizedTimeline raised: the catch of getFromDb calls getFallbackTimeline
Escalate(why) ==
    /\ pc' = "fallback"
    /\ fbCalls' = fbCalls + 1
    /\ cause' = why

\* the membership lookup resolves
MembersFound ==
    /\ pc = "members"
    /\ IF Len(listMembers) = 0
       THEN /\ Return(<< >>)
            /\ UNCHANGED rel
       ELSE /\ pc' = "relations"
            /\ rel' = [l \in Lookups |-> "pending"]
            /\ UNCHANGED <<outcome, timeline>>
    /\ UNCHANGED <<world, handler, client, ps, renoteMutedUserIds, validMembers, i, allNotes,
                   batches, optCalls, fbCalls, cause>>

\* the membership lookup rejects
MembersFailed ==
    /\ pc = "members"
    /\ Escalate("members")
    /\ clean' = FALSE
    /\ UNCHANGED <<world, handler, phase, ps0, pages, ps, rel, renoteMutedUserIds, validMembers,
                   i, allNotes, batches, optCalls, outcome, timeline>>

\* a batch query for the members from index k on is issued
IssueBatch(log, k) == Append(log, [from |-> k, status |-> "inflight", got |-> << >>])

\* mutant of PromiseAll: the renote-mute lookup is not awaited with the other two
PromiseAllEager(r) ==
    IF r["mute"] = "failed" \/ r["block"] = "failed"
    THEN /\ Escalate(IF r["mute"] = "failed" THEN "mute" ELSE "block")
         /\ UNCHANGED <<renoteMutedUserIds, validMembers, batches, outcome, timeline>>
    ELSE IF r["mute"] = "pending" \/ r["block"] = "pending"
    THEN UNCHANGED <<pc, renoteMutedUserIds, validMembers, batches, fbCalls, cause,
                     outcome, timeline>>
    ELSE LET valid == filterMembers(listMembers, mutings, blockings)
         IN  /\ renoteMutedUserIds' = IF r["renoteMute"] = "ok" THEN renoteMutings ELSE {}
             /\ validMembers' = valid
             /\ IF Len(valid) = 0
                THEN /\ Return(<< >>)
                     /\ UNCHANGED batches
                ELSE /\ pc' = "batch"
                     /\ batches' = IssueBatch(batches, 0)
                     /\ UNCHANGED <<outcome, timeline>>
             /\ UNCHANGED <<fbCalls, cause>>

\* Promise.all of the three lookups, after one of them settled as r.  Once it
\* has rejected, the lookups still in flight settle unobserved.
PromiseAll(r) ==
    IF r["mute"] = "failed" \/ r["block"] = "failed"
    THEN /\ Escalate(IF r["mute"] = "failed" THEN "mute" ELSE "block")
         /\ UNCHANGED <<renoteMutedUserIds, validMembers, batches, outcome, timeline>>
    ELSE IF \E l \in Lookups : r[l] = "pending"
    THEN UNCHANGED <<pc, renoteMutedUserIds, validMembers, batches, fbCalls, cause,
                     outcome, timeline>>
    ELSE LET valid == filterMembers(listMembers, mutings, blockings)
         IN  /\ renoteMutedUserIds' = IF r["renoteMute"] = "ok" THEN renoteMutings ELSE {}
             /\ validMembers' = valid
             /\ IF Len(valid) = 0
                THEN /\ Return(<< >>)
                     /\ UNCHANGED batches
                ELSE /\ pc' = "batch"
                     /\ batches' = IssueBatch(batches, 0)
                     /\ UNCHANGED <<outcome, timeline>>
             /\ UNCHANGED <<fbCalls, cause>>

\* one of the three lookups settles while Promise.all is awaited
Settle(l, how) ==
    /\ pc = "relations"
    /\ rel' = [rel EXCEPT ![l] = how]
    /\ PromiseAll(rel')
    /\ clean' = (clean /\ how = "ok")
    /\ UNCHANGED <<world, handler, phase, ps0, pages, ps, i, allNotes, optCalls>>

MutedUsersFound ==
    /\ rel["mute"] = "pending"
    /\ Settle("mute", "ok")

MutedUsersFailed ==
    /\ rel["mute"] = "pending"
    /\ Settle("mute", "failed")

BlockedUsersFound ==
    /\ rel["block"] = "pending"
    /\ Settle("block", "ok")

BlockedUsersFailed ==
    /\ rel["block"] = "pending"
    /\ Settle("block", "failed")

RenoteMutedUsersFound ==
    /\ rel["renoteMute"] = "pending"
    /\ Settle("renoteMute", "ok")

\* mutant of RenoteMutedUsersFailed: getRenoteMutedUsers has no catch
RenoteMutedUsersRaises ==
    /\ rel["renoteMute"] = "pending"
    /\ pc = "relations"
    /\ rel' = [rel EXCEPT !["renoteMute"] = "failed"]
    /\ Escalate("renoteMute")
    /\ clean' = FALSE
    /\ UNCHANGED <<world, handler, phase, ps0, pages, ps, renoteMutedUserIds, validMembers, i,
                   allNotes, batches, optCalls, outcome, timeline>>

\* the lookup rejects and getRenoteMutedUsers returns []
RenoteMutedUsersFailed ==
    /\ rel["renoteMute"] = "pending"
    /\ Settle("renoteMute", "failed")

\* the batch query in flight settles as how, having returned got
settled(log, how, got) ==
    [log EXCEPT ![Len(log)] = [@ EXCEPT !.status = how, !.got = got]]

\* the loop after the iteration at index i: the next batch or step 5
LoopOn(log, acc, stop) ==
    IF ~stop /\ i + batchSize < Len(validMembers)
    THEN /\ i' = i + batchSize
         /\ batches' = IssueBatch(log, i + batchSize)
         /\ UNCHANGED <<pc, outcome, timeline>>
    ELSE /\ Return(sortedNotes(acc, ps))
         /\ batches' = log
         /\ UNCHANGED i

\* the batch query in flight resolves
BatchFound ==
    /\ pc = "batch"
    /\ LET batch == batchAt(validMembers, i)
           batchNotes == getNotesForUsers(batchUserIds(batch), batch, ps, me,
                                          renoteMutedUserIds)
           acc == allNotes \o batchNotes
       IN  /\ allNotes' = acc
           /\ LoopOn(settled(batches, "ok", batchNotes), acc, enough(acc, ps))
    /\ UNCHANGED <<world, handler, client, ps, rel, renoteMutedUserIds, validMembers, optCalls,
                   fbCalls, cause>>

\* mutant of BatchFailed: the loop has no catch, the rejection leaves the loop
BatchFailedRaises ==
    /\ pc = "batch"
    /\ Escalate("batch")
    /\ batches' = settled(batches, "failed", << >>)
    /\ clean' = FALSE
    /\ UNCHANGED <<world, handler, phase, ps0, pages, ps, rel, renoteMutedUserIds, validMembers,
                   i, allNotes, optCalls, outcome, timeline>>

\* the batch query in flight rejects: continue
BatchFailed ==
    /\ pc = "batch"
    /\ LoopOn(settled(batches, "failed", << >>), allNotes, FALSE)
    /\ clean' = FALSE
    /\ UNCHANGED <<world, handler, phase, ps0, pages, ps, rel, renoteMutedUserIds, validMembers,
                   allNotes, optCalls, fbCalls, cause>>

\* the fallback query resolves
FallbackFound ==
    /\ pc = "fallback"
    /\ Return(getFallbackTimeline(ps))
    /\ UNCHANGED <<world, handler, client, ps, rel, renoteMutedUserIds, validMembers, i, allNotes,
                   batches, optCalls, fbCalls, cause>>

\* the fallback query rejects, and so does getFromDb
FallbackFailed ==
    /\ pc = "fallback"
    /\ pc' = "done"
    /\ outcome' = "raised"
    /\ clean' = FALSE
    /\ UNCHANGED <<world, handler, phase, ps0, pages, ps, rel, renoteMutedUserIds, validMembers,
                   i, allNotes, batches, optCalls, fbCalls, cause, timeline>>

\* the client, served without a failure, asks for the page after the one it got
NextPage ==
    /\ pc = "done" /\ outcome = "returned" /\ phase = "first"
    /\ clean
    /\ timeline # << >>
    /\ phase' = "next"
    /\ pages' = Append(pages, timeline)
    /\ CallGetFromDb([ps EXCEPT !.untilId = timeline[Len(timeline)].id])
    /\ UNCHANGED <<world, handler, ps0, clean>>

\* the client, served without a failure, asks for both pages in one request
SingleFetch ==
    /\ pc = "done" /\ outcome = "returned" /\ phase = "next"
    /\ clean
    /\ phase' = "single"
    /\ pages' = Append(pages, timeline)
    /\ CallGetFromDb([ps0 EXCEPT !.limit = 2 * ps0.limit])
    /\ UNCHANGED <<world, handler, ps0, clean>>

\* ------------------------------------------------------- the endpoint handler
\* the handler is called: it runs up to its first await, the list lookup
InitHandler ==
    /\ me = MaxMembers + 1
    /\ \E n \in {0, 1, batchSize + 1} :
          listMembers = [k \in 1..n |-> [userId |-> k, withReplies |-> FALSE]]
    /\ notes = {Note(1, 1), Note(2, batchSize + 1)}
    /\ suspended = {}
    /\ following = {}
    /\ mutings = {}
    /\ blockings \in {{}, {1}}
    /\ renoteMutings = {}
    /\ userLists \in {{}, {[id |-> 1, userId |-> me]}, {[id |-> 1, userId |-> 1]}}
    /\ enableFanoutTimeline \in BOOLEAN
    /\ \E limit \in 1..MaxLimit : ps0 = Params(0, 0, limit, FALSE, TRUE, TRUE)
    /\ ps = ps0
    /\ pc = "idle"
    /\ rel = NoLookups
    /\ renoteMutedUserIds = {}
    /\ validMembers = << >>
    /\ i = 0
    /\ allNotes = << >>
    /\ batches = << >>
    /\ optCalls = 0
    /\ fbCalls = 0
    /\ cause = ""
    /\ outcome = ""
    /\ timeline = << >>
    /\ phase = "first"
    /\ pages = << >>
    /\ clean = TRUE
    /\ listId = 1
    /\ hpc = "list"
    /\ list = 0
    /\ reads = 0
    /\ fanoutCalls = 0
    /\ error = ""

\* the handler throws e
Throw(e) ==
    /\ hpc' = "done"
    /\ error' = e

\* the list lookup resolves with the caller's list: getFromDb is called, or the
\* fanout timeline service when it is enabled
ListFound ==
    /\ hpc = "list"
    /\ \E l \in userLists : l.id = listId /\ l.userId = me /\ list' = l.id
    /\ IF ~enableFanoutTimeline
       THEN /\ hpc' = "db"
            /\ CallGetFromDb(ps0)
            /\ UNCHANGED fanoutCalls
       ELSE /\ hpc' = "fanout"
            /\ fanoutCalls' = fanoutCalls + 1
            /\ UNCHANGED call
    /\ UNCHANGED <<world, client, listId, reads, error>>

\* mutant of ListMissing: the telemetry is recorded before the list is checked
ListMissingRead ==
    /\ hpc = "list"
    /\ ~\E l \in userLists : l.id = listId /\ l.userId = me
    /\ list' = 0
    /\ reads' = reads + 1
    /\ Throw("NoSuchList")
    /\ UNCHANGED <<world, call, client, listId, fanoutCalls>>

\* the list lookup resolves with null: no list of that id owned by the caller
ListMissing ==
    /\ hpc = "list"
    /\ ~\E l \in userLists : l.id = listId /\ l.userId = me
    /\ list' = 0
    /\ Throw("NoSuchList")
    /\ UNCHANGED <<world, call, client, listId, reads, fanoutCalls>>

\* the list lookup rejects
ListFailed ==
    /\ hpc = "list"
    /\ Throw("list")
    /\ UNCHANGED <<world, call, client, listId, list, reads, fanoutCalls>>

\* getFromDb resolves: the telemetry is recorded and packMany is called
GetFromDbReturned ==
    /\ hpc = "db"
    /\ pc = "done" /\ outcome = "returned"
    /\ reads' = reads + 1
    /\ hpc' = "pack"
    /\ UNCHANGED <<world, call, client, listId, list, fanoutCalls, error>>

\* getFromDb rejects
GetFromDbRaised ==
    /\ hpc = "db"
    /\ pc = "done" /\ outcome = "raised"
    /\ Throw("timeline")
    /\ UNCHANGED <<world, call, client, listId, list, reads, fanoutCalls>>

\* packMany resolves: the handler returns the packed notes
PackFound ==
    /\ hpc = "pack"
    /\ hpc' = "done"
    /\ UNCHANGED <<world, call, client, listId, list, reads, fanoutCalls, error>>

\* packMany rejects
PackFailed ==
    /\ hpc = "pack"
    /\ Throw("pack")
    /\ UNCHANGED <<world, call, client, listId, list, reads, fanoutCalls>>

\* the fanout timeline service resolves with what it has cached: the telemetry
\* is recorded and the handler returns
FanoutHit ==
    /\ hpc = "fanout"
    /\ timeline' \in {<< >>, slice(orderByIdDesc(notes), 0, Limit(ps0))}
    /\ reads' = reads + 1
    /\ hpc' = "done"
    /\ UNCHANGED <<world, client, listId, list, fanoutCalls, error>>
    /\ UNCHANGED <<ps, pc, rel, renoteMutedUserIds, validMembers, i, allNotes, batches,
                   optCalls, fbCalls, cause, outcome>>

\* the fanout timeline service calls dbFallback
FanoutDbFallback ==
    /\ hpc = "fanout"
    /\ hpc' = "fanoutDb"
    /\ CallGetFromDb(ps0)
    /\ UNCHANGED <<world, client, listId, list, reads, fanoutCalls, error>>

\* dbFallback resolves and the service resolves with its rows: the telemetry is
\* recorded and the handler returns
FanoutReturned ==
    /\ hpc = "fanoutDb"
    /\ pc = "done" /\ outcome = "returned"
    /\ reads' = reads + 1
    /\ hpc' = "done"
    /\ UNCHANGED <<world, call, client, listId, list, fanoutCalls, error>>

\* the service rejects, of itself or because dbFallback did
FanoutFailed ==
    /\ \/ hpc = "fanout"
       \/ hpc = "fanoutDb" /\ pc = "done" /\ outcome = "raised"
    /\ Throw("timeline")
    /\ UNCHANGED <<world, call, client, listId, list, reads, fanoutCalls>>

Next ==
    \/ MembersFound
    \/ MembersFailed
    \/ MutedUsersFound
    \/ MutedUsersFailed
    \/ BlockedUsersFound
    \/ BlockedUsersFailed
    \/ RenoteMutedUsersFound
    \/ RenoteMutedUsersFailed
    \/ BatchFound
    \/ BatchFailed
    \/ FallbackFound
    \/ FallbackFailed
    \/ NextPage
    \/ SingleFetch

Spec == Init /\ [][Next]_vars

\* one run of the handler, from the list lookup to its return or throw
NextHandler ==
    \/ ListFound
    \/ ListMissing
    \/ ListFailed
    \/ MembersFound
    \/ MembersFailed
    \/ MutedUsersFound
    \/ MutedUsersFailed
    \/ BlockedUsersFound
    \/ BlockedUsersFailed
    \/ RenoteMutedUsersFound
    \/ RenoteMutedUsersFailed
    \/ BatchFound
    \/ BatchFailed
    \/ FallbackFound
    \/ FallbackFailed
    \/ GetFromDbReturned
    \/ GetFromDbRaised
    \/ PackFound
    \/ PackFailed
    \/ FanoutHit
    \/ FanoutDbFallback
    \/ FanoutReturned
    \/ FanoutFailed

SpecFilter == InitFilter /\ [][Next]_vars

SpecHandler == InitHandler /\ [][NextHandler]_vars

SpecCap == InitCap /\ [][Next]_vars

\* ------------------------------------------------------------------- claims
Returned == pc = "done" /\ outcome = "returned"

Authors_(t) == {t[k].userId : k \in DOMAIN t}

\* the rows of the batch queries 1..k that resolved, in the order of the batches
RECURSIVE gotUpTo(_)
gotUpTo(k) == IF k = 0 THEN << >> ELSE gotUpTo(k - 1) \o batches[k].got

\* C1: no post returned by getFromDb is authored by a user in the caller's mute
\* set or block set, whatever failed on the way.
C1_NoMutedOrBlockedAuthor ==
    Returned => Authors_(timeline) \cap (mutings \cup blockings) = {}

\* C2: the sequence getFromDb returns is strictly descending by id (hence has no
\* id twice), from the optimized path and from the fallback alike.
C2_StrictlyDescending ==
    Returned => \A k \in 1..(Len(timeline) - 1) : timeline[k].id > timeline[k + 1].id

\* two batches contributed rows, merged into a timeline of two posts or more
C2_Witness ==
    /\ Returned /\ cause = ""
    /\ Len(timeline) >= 2
    /\ \E j, k \in DOMAIN batches : j < k /\ batches[j].got # << >> /\ batches[k].got # << >>

\* C3: the first page followed by the page requested with untilId = the id of
\* its last post equals what one request with twice the limit returns.
C3_Pagination ==
    (Returned /\ phase = "single" /\ clean) => pages[1] \o pages[2] = timeline

\* C4: when the optimized path raises, getFromDb calls the fallback exactly once
\* and returns what it returns; neither path runs a second time.
C4_SingleEscalation ==
    /\ optCalls = 1
    /\ fbCalls = (IF cause = "" THEN 0 ELSE 1)
    /\ (pc = "fallback") => (cause # "" /\ outcome = "")
    /\ (Returned /\ cause # "") => timeline = getFallbackTimeline(ps)

\* the mute lookup failed and the fallback answered with posts
C4_Witness ==
    /\ Returned /\ cause = "mute" /\ fbCalls = 1 /\ timeline # << >>

\* C5: once the optimized path has raised, getFromDb still returns a sequence.
C5_FallbackNeverRaises ==
    (pc = "done" /\ cause # "") => outcome = "returned"

\* C6: failed batch queries are skipped: the optimized path does not raise, the
\* fallback is not called, no batch is issued twice, the loop goes on with the
\* next batch and the result is built from the rows of the batches that resolved.
C6_FailedBatchSkipped ==
    (\E k \in DOMAIN batches : batches[k].status = "failed") =>
        /\ cause = "" /\ fbCalls = 0 /\ pc \in {"batch", "done"}
        /\ \A k \in DOMAIN batches :
              /\ batches[k].from = (k - 1) * batchSize
              /\ batches[k].status = "failed" => batches[k].got = << >>
              /\ (batches[k].status = "failed" /\ k * batchSize < Len(validMembers))
                    => k < Len(batches)
        /\ allNotes = gotUpTo(Len(batches))
        /\ pc = "done" =>
              LET got == gotUpTo(Len(batches))
                  rest == {got[k] : k \in DOMAIN got} \ {timeline[k] : k \in DOMAIN timeline}
              IN  /\ outcome = "returned"
                  /\ {timeline[k] : k \in DOMAIN timeline} \subseteq {got[k] : k \in DOMAIN got}
                  /\ Len(timeline) = Min(ps.limit, Len(got))
                  /\ \A n \in rest : \A k \in DOMAIN timeline : n.id < timeline[k].id

\* the first batch failed, a later one resolved with rows, and posts are returned
C6_Witness ==
    /\ Returned /\ timeline # << >>
    /\ Len(batches) >= 2
    /\ batches[1].status = "failed"
    /\ \E k \in DOMAIN batches : batches[k].status = "ok" /\ batches[k].got # << >>

\* C7: a failed renote-mute lookup yields the empty set and the optimized path
\* goes on with the real mute and block sets; a failed mute or block lookup makes
\* the optimized path raise before any batch query, and the fallback is called.
C7_LookupFailures ==
    /\ (rel["renoteMute"] = "failed" /\ rel["mute"] = "ok" /\ rel["block"] = "ok") =>
          /\ cause = "" /\ fbCalls = 0
          /\ renoteMutedUserIds = {}
          /\ {validMembers[k].userId : k \in DOMAIN validMembers}
                = {listMembers[k].userId : k \in DOMAIN listMembers}
                     \ (mutings \cup blockings)
    /\ (rel["mute"] = "failed" \/ rel["block"] = "failed") =>
          /\ cause \in {"mute", "block"}
          /\ fbCalls = 1
          /\ batches = << >>
          /\ pc \in {"fallback", "done"}

\* the renote-mute lookup failed, a member is muted, and the optimized path
\* returned posts
C7_Witness ==
    /\ Returned /\ cause = "" /\ timeline # << >>
    /\ rel["renoteMute"] = "failed"
    /\ mutings # {}
    /\ Len(validMembers) < Len(listMembers)

\* C8: batch k+1 is issued if and only if batch k has settled, members remain
\* and the accumulator holds fewer than 3 x limit posts after batch k.
C8_EarlyTermination ==
    \A k \in DOMAIN batches :
        /\ batches[k].from = (k - 1) * batchSize
        /\ (k < Len(batches)) <=>
              /\ batches[k].status # "inflight"
              /\ k * batchSize < Len(validMembers)
              /\ Len(gotUpTo(k)) < 3 * ps.limit
        /\ (batches[k].status = "inflight") <=> (k = Len(batches) /\ pc = "batch")

\* the loop stopped early: members remained when the accumulator was full
C8_Witness ==
    /\ Returned /\ cause = "" /\ batches # << >>
    /\ Len(batches) * batchSize < Len(validMembers)
    /\ Len(gotUpTo(Len(batches))) >= 3 * ps.limit

\* C9: with withFiles = true every post getFromDb returns has attachments.
C9_WithFilesOnly ==
    (Returned /\ ps.withFiles) => \A k \in DOMAIN timeline : timeline[k].fileIds # 0

\* C10: with withRenotes = false no post getFromDb returns is a pure repost, a
\* post with a renoteId and no text, whatever its attachments.
C10_NoPureRenote ==
    (Returned /\ ps.withRenotes = FALSE) =>
        \A k \in DOMAIN timeline : ~(timeline[k].renoteId # 0 /\ timeline[k].text = 0)

\* C11: every post of a request the fallback answered has visibility public or
\* home, whoever the caller is to the author.
C11_FallbackPublicOrHome ==
    (Returned /\ cause # "") =>
        \A k \in DOMAIN timeline : timeline[k].visibility \in {"public", "home"}

\* the fallback answered with posts and left out a followers-only or direct note
\* of a member the caller follows or is
C11_Witness ==
    /\ Returned /\ cause # "" /\ timeline # << >>
    /\ \E n \in notes :
          /\ n.visibility \in {"followers", "direct"}
          /\ n.userId \in following \cup {me}
          /\ \A k \in DOMAIN timeline : timeline[k] # n

\* the conditions of getNotesForUsers other than the reply bracket
OtherThanReply(n) ==
    /\ n.channelId = 0
    /\ n.userId \notin suspended
    /\ generateVisibilityQuery(n, me)
    /\ renoteMuteFilter(n, renoteMutedUserIds)
    /\ includeMyRenotesFilter(n, ps, me)
    /\ withRenotesFilter(n, ps)
    /\ withFilesFilter(n, ps)
    /\ paging(n, ps)

\* C12: on the optimized path a post of a valid member passes the reply rule if
\* and only if it is no reply, or replies to its own author, or replies to the
\* caller, or its author's membership has withReplies; in the scenario of members
\* 1 (withReplies false, five posts, one a reply to a third party) and 2
\* (withReplies true, three posts, one a reply to member 1) with limit 10, seven
\* posts are returned, without the third-party reply and with the reply of 2.
C12_ReplyInclusion ==
    /\ \A k \in DOMAIN batches :
          batches[k].status = "ok" =>
             \A n \in notes :
                (/\ n.userId \in batchUserIds(batchAt(validMembers, batches[k].from))
                 /\ OtherThanReply(n))
                => ((\E j \in DOMAIN batches[k].got : batches[k].got[j] = n) <=>
                      \/ n.replyId = 0
                      \/ n.replyUserId = n.userId
                      \/ n.replyUserId = me
                      \/ \E m \in DOMAIN listMembers :
                            listMembers[m].userId = n.userId /\ listMembers[m].withReplies)
    /\ (/\ Returned /\ cause = "" /\ phase = "first"
        /\ notes = ReplyScenario
        /\ ~listMembers[1].withReplies /\ listMembers[2].withReplies
        /\ Len(validMembers) = 2
        /\ batches[1].status = "ok"
        /\ ~ps.withFiles)
       => [k \in DOMAIN timeline |-> timeline[k].id] = <<8, 7, 6, 5, 3, 2, 1>>

\* the scenario has been served by the optimized path with its seven posts
C12_Witness ==
    /\ Returned /\ cause = "" /\ phase = "first"
    /\ notes = ReplyScenario
    /\ ~listMembers[1].withReplies /\ listMembers[2].withReplies
    /\ ps.limit = 10
    /\ Len(timeline) = 7

\* every member of the list is muted or blocked by the caller (or there is none)
AllExcluded ==
    \A m \in DOMAIN listMembers : listMembers[m].userId \in mutings \cup blockings

\* what C13 promises of a request
NothingIssued ==
    /\ batches = << >>
    /\ fbCalls = 0
    /\ outcome # "raised"
    /\ pc = "done" => (Returned /\ timeline = << >>)

C14_CursorAndLimit ==
    Returned =>
        /\ Len(timeline) <= (IF ps.limit = 0 THEN DefaultLimit ELSE ps.limit)
        /\ \A k \in DOMAIN timeline :
              /\ ps.untilId # 0 => timeline[k].id < ps.untilId
              /\ ps.sinceId # 0 => timeline[k].id > ps.sinceId

\* the fallback has answered a request with both cursors, leaving out a member's
\* post at each end
C14_Witness ==
    /\ Returned /\ cause # "" /\ timeline # << >>
    /\ ps.untilId # 0 /\ ps.sinceId # 0
    /\ \E n, o \in notes :
          /\ n.id = ps.untilId /\ o.id = ps.sinceId
          /\ \E m \in DOMAIN listMembers : listMembers[m].userId = n.userId
          /\ \E m \in DOMAIN listMembers : listMembers[m].userId = o.userId

\* the list table has no row of the requested id owned by the caller
NoList == ~\E l \in userLists : l.id = listId /\ l.userId = me

\* nothing but the list lookup has been issued, nothing has been recorded
NothingElse ==
    /\ optCalls = 0 /\ pc = "idle"
    /\ rel = NoLookups
    /\ batches = << >>
    /\ fbCalls = 0
    /\ fanoutCalls = 0
    /\ reads = 0

\* the handler has obtained the timeline, from getFromDb or the fanout service
TimelineObtained ==
    /\ hpc = "pack" \/ (hpc = "done" /\ error \in {"", "pack"})
    /\ IF enableFanoutTimeline THEN fanoutCalls = 1 ELSE optCalls = 1 /\ Returned

\* for an owned list the telemetry is recorded once, after the timeline has been
\* obtained, and not before
TelemetryOnce ==
    ~NoList => reads = (IF TimelineObtained THEN 1 ELSE 0)

Got(k) == {batches[k].got[j] : j \in DOMAIN batches[k].got}

\* the conditions of getNotesForUsers other than the renote-mute bracket, for the
\* batch query k
OtherThanRenoteMute(n, k) ==
    /\ n.userId \in batchUserIds(batchAt(validMembers, batches[k].from))
    /\ n.channelId = 0
    /\ n.userId \notin suspended
    /\ replyFilter(n, batchAt(validMembers, batches[k].from), me)
    /\ generateVisibilityQuery(n, me)
    /\ includeMyRenotesFilter(n, ps, me)
    /\ withRenotesFilter(n, ps)
    /\ withFilesFilter(n, ps)
    /\ paging(n, ps)

\* a repost without text by an author of the resolved renote-mute set
MutedPureRenote(n) ==
    /\ renoteMutedUserIds # {}
    /\ n.renoteId # 0 /\ n.text = 0
    /\ n.userId \in renoteMutedUserIds

\* C16: with a non-empty resolved renote-mute set, the optimized path returns no
\* repost without text by an author of the set, and the rule excludes nothing
\* else: a post with text of its own, a post that is no repost and a post by an
\* author outside the set are returned when the other conditions admit them.
C16_RenoteMute ==
    /\ \A k \in DOMAIN batches :
          batches[k].status = "ok" =>
             \A n \in notes :
                OtherThanRenoteMute(n, k) => (n \in Got(k) <=> ~MutedPureRenote(n))
    /\ (Returned /\ cause = "") =>
          \A k \in DOMAIN timeline : ~MutedPureRenote(timeline[k])

\* the optimized path has left out the pure repost of a renote-muted member
C16_Witness ==
    /\ Returned /\ cause = "" /\ timeline # << >>
    /\ \E n \in notes :
          /\ MutedPureRenote(n)
          /\ OtherThanRenoteMute(n, 1)
          /\ \A k \in DOMAIN timeline : timeline[k] # n

\* C17: every post a request returns, from the optimized path or from the
\* fallback, is outside any channel and by an author who is not suspended.
C17_NoChannelNoSuspended ==
    Returned =>
        \A k \in DOMAIN timeline :
            /\ timeline[k].channelId = 0
            /\ timeline[k].userId \notin suspended

\* a request has been answered without the channel post, or the post of the
\* suspended author, that a member of the list has written
C17_Witness ==
    /\ Returned /\ timeline # << >>
    /\ \E n \in notes :
          /\ n.channelId # 0 \/ n.userId \in suspended
          /\ \E m \in DOMAIN listMembers : listMembers[m].userId = n.userId
          /\ n.visibility = "public"
          /\ \A k \in DOMAIN timeline : timeline[k] # n

\* C18: the three relation lookups are started together; the first batch query
\* is issued only when the mute and block lookups have resolved and the
\* renote-mute lookup has resolved or degraded; the batch queries are issued in
\* member order, each after the one before it has returned or failed, so that at
\* most one, the last issued, is in flight.
C18_QueryOrdering ==
    /\ (\A l \in Lookups : rel[l] = "idle") \/ (\A l \in Lookups : rel[l] # "idle")
    /\ batches # << >> =>
          /\ rel["mute"] = "ok" /\ rel["block"] = "ok"
          /\ rel["renoteMute"] \in {"ok", "failed"}
    /\ \A k \in DOMAIN batches :
          /\ batches[k].from = (k - 1) * batchSize
          /\ batches[k].from < Len(validMembers)
          /\ batches[k].status = "inflight" <=> (k = Len(batches) /\ pc = "batch")

\* the second batch query is in flight after the first has settled, the
\* renote-mute lookup having degraded
C18_Witness ==
    /\ pc = "batch"
    /\ Len(batches) = 2
    /\ batches[1].status \in {"ok", "failed"}
    /\ batches[2].status = "inflight"
    /\ rel["renoteMute"] = "failed"

\* the number of iterations the batch loop has over validMembers
BatchCount == (Len(validMembers) + batchSize - 1) \div batchSize

\* the batch of the k-th iteration of the loop
Batch(k) == batchAt(validMembers, (k - 1) * batchSize)

\* C19: once the valid members are computed, the batches of the loop hold only
\* members neither muted nor blocked, each has 1 to 15 members, no member id is
\* in two batches, the batches in order are the valid members, which are the
\* members neither muted nor blocked, and no post is returned by two batch
\* queries.
C19_BatchPartition ==
    (pc = "batch" \/ (Returned /\ batches # << >>)) =>
        /\ \A k \in 1..BatchCount :
              /\ Len(Batch(k)) \in 1..batchSize
              /\ Cardinality(batchUserIds(Batch(k))) = Len(Batch(k))
              /\ batchUserIds(Batch(k)) \cap (mutings \cup blockings) = {}
              /\ \A j \in 1..BatchCount :
                    j # k => batchUserIds(Batch(k)) \cap batchUserIds(Batch(j)) = {}
        /\ \A j \in DOMAIN validMembers :
              Batch(((j - 1) \div batchSize) + 1)[((j - 1) % batchSize) + 1] = validMembers[j]
        /\ {validMembers[j].userId : j \in DOMAIN validMembers}
              = {listMembers[j].userId : j \in DOMAIN listMembers} \ (mutings \cup blockings)
        /\ \A k \in DOMAIN batches :
              /\ k <= BatchCount
              /\ \A j \in DOMAIN batches :
                    j # k => Got(k) \cap Got(j) = {}

\* two batch queries over a list with a muted or blocked member have returned
\* posts
C19_Witness ==
    /\ Returned
    /\ mutings \cup blockings # {}
    /\ Len(validMembers) < Len(listMembers)
    /\ Len(batches) = 2
    /\ Got(1) # {} /\ Got(2) # {}

\* the posts of the valid members that pass the filter pipeline and the cursor
\* bounds, each judged with the batch of its author
Eligible ==
    {n \in notes :
        \E k \in 1..BatchCount :
            /\ OtherThanRenoteMute(n, k)
            /\ renoteMuteFilter(n, renoteMutedUserIds)}

\* no batch query failed, the loop visited every batch, and limit is at most 50
Complete ==
    /\ Returned /\ cause = ""
    /\ Len(batches) = BatchCount
    /\ BatchCount > 0
    /\ \A k \in DOMAIN batches : batches[k].status = "ok"
    /\ (IF ps.limit = 0 THEN DefaultLimit ELSE ps.limit) <= BatchRowLimit

\* C20: when no batch query fails, every batch is visited and limit is at most
\* 50, the result is the limit newest eligible posts of the valid members, newest
\* first: the cap of 50 rows per batch query loses none of them.
C20_Completeness ==
    Complete =>
        /\ \A k \in DOMAIN timeline : timeline[k] \in Eligible
        /\ \A k \in 1..(Len(timeline) - 1) : timeline[k].id > timeline[k + 1].id
        /\ Len(timeline) = Min(IF ps.limit = 0 THEN DefaultLimit ELSE ps.limit,
                               Cardinality(Eligible))
        /\ \A n \in Eligible :
              (\A k \in DOMAIN timeline : timeline[k] # n) =>
                 \A k \in DOMAIN timeline : n.id < timeline[k].id

\* a complete run in which a batch query was cut at 50 rows, an eligible post of
\* its members being left out of it
C20_Witness ==
    /\ Complete
    /\ Len(batches) = 2
    /\ Len(timeline) = ps.limit
    /\ \E k \in DOMAIN batches :
          /\ Len(batches[k].got) = BatchRowLimit
          /\ \E n \in Eligible : OtherThanRenoteMute(n, k) /\ n \notin Got(k)

====
